---- MODULE Spec2Model ----
(***************************************************************************)
(* The encrypted vault of src/password_manager: PasswordEntry,             *)
(* PasswordManager (password_manager.py) and CryptoUtils (crypto_utils.py).*)
(*                                                                         *)
(* Strings are sequences of Unicode code points, byte strings sequences of *)
(* 0..255.  The library calls are modelled by their contracts:             *)
(*   - json.dumps / json.loads: a compact text layout of the same          *)
(*     documents with a total parser that rejects every other text;        *)
(*   - str.encode / bytes.decode: UTF-8 for code points below 2048;        *)
(*   - PBKDF2: an injective function of (password, salt);                  *)
(*   - AES-CBC: an ideal cipher.  A ciphertext decrypts to its plaintext   *)
(*     under the key and IV that produced it, and to an arbitrary byte     *)
(*     string of the same length under any other key.  Outcomes that need  *)
(*     a coincidence of a dozen bytes or more are not among them;          *)
(*   - base64: an invertible wrapper.                                      *)
(***************************************************************************)
EXTENDS Integers, Sequences, FiniteSets, TLC

VARIABLES
    entries,          \* PasswordManager.entries
    master_password,  \* PasswordManager.master_password
    is_unlocked,      \* PasswordManager.is_unlocked
    data_file,        \* the file at PasswordManager.data_file
    export_file,      \* the file export_data writes
    now,              \* datetime.now()
    last,             \* the last call: its name, arguments and result
    probe,            \* a call of CryptoUtils on its own: arguments and result
    env,              \* the operating system: what os.urandom can return,
                      \* and whether writing a file can fail
    other             \* a second PasswordManager on the same data_file, while
                      \* it is not the one being called: its fields and its
                      \* last call

vars == <<entries, master_password, is_unlocked, data_file, export_file, now,
          last, probe, env, other>>

(***************************************************************************)
(* Bounds of the model.                                                    *)
(***************************************************************************)
MaxEntries == 2
MaxTime == 3
NumSalts == 2
NumIvs == 1

(***************************************************************************)
(* Program constants.                                                      *)
(***************************************************************************)
salt_length == 16
iv_length == 16
BlockSize == 16

(***************************************************************************)
(* Generic helpers.                                                        *)
(***************************************************************************)
Min(a, b) == IF a < b THEN a ELSE b

Ok(v) == [ok |-> TRUE, val |-> v]

Err == [ok |-> FALSE, val |-> <<>>]

\* An exception of the class exc raised inside decrypt_data's try block.
Raise(exc) == [ok |-> FALSE, val |-> <<>>, exc |-> exc]

\* Python's None where a string is expected (no code point is negative).
None == <<-1>>

Repeat(b, n) == [i \in 1..n |-> b]

\* First position of d in s, 0 when absent.
IndexOf(s, d) ==
    IF \E i \in DOMAIN s : s[i] = d
    THEN CHOOSE i \in DOMAIN s : s[i] = d /\ \A k \in 1..(i - 1) : s[k] # d
    ELSE 0

RECURSIVE Split(_, _)
Split(s, d) ==
    LET j == IndexOf(s, d)
    IN  IF j = 0 THEN <<s>>
        ELSE <<SubSeq(s, 1, j - 1)>> \o Split(SubSeq(s, j + 1, Len(s)), d)

RECURSIVE Flatten(_)
Flatten(ss) == IF ss = <<>> THEN <<>> ELSE Head(ss) \o Flatten(Tail(ss))

\* str.lower() on the letters A-Z and on E-acute (201 -> 233).
lower(s) ==
    [i \in DOMAIN s |->
        IF s[i] \in 65..90 \/ s[i] = 201 THEN s[i] + 32 ELSE s[i]]

\* q in s (Python substring test).
Contains(q, s) ==
    \E i \in 1..(Len(s) - Len(q) + 1) : SubSeq(s, i, i + Len(q) - 1) = q

(***************************************************************************)
(* str.encode('utf-8') and bytes.decode('utf-8').                          *)
(***************************************************************************)
Utf8Char(c) ==
    IF c < 128 THEN <<c>> ELSE <<192 + (c \div 64), 128 + (c % 64)>>

utf8_encode(s) == Flatten([i \in DOMAIN s |-> Utf8Char(s[i])])

RECURSIVE utf8_decode(_)
utf8_decode(b) ==
    IF b = <<>> THEN Ok(<<>>)
    ELSE IF b[1] < 128
         THEN LET r == utf8_decode(Tail(b))
              IN  IF r.ok THEN Ok(<<b[1]>> \o r.val) ELSE Err
    ELSE IF b[1] \in 194..223 /\ Len(b) >= 2 /\ b[2] \in 128..191
         THEN LET r == utf8_decode(SubSeq(b, 3, Len(b)))
              IN  IF r.ok THEN Ok(<<(b[1] - 192) * 64 + (b[2] - 128)>> \o r.val)
                  ELSE Err
    ELSE Err

(***************************************************************************)
(* PasswordEntry.                                                          *)
(***************************************************************************)
TimeStr(t) == <<48 + t>>

Falsy(s) == s = None \/ s = <<>>

PasswordEntry(service, username, password, notes, created_at, updated_at, t) ==
    [service    |-> service,
     username   |-> username,
     password   |-> password,
     notes      |-> notes,
     created_at |-> IF Falsy(created_at) THEN TimeStr(t) ELSE created_at,
     updated_at |-> IF Falsy(updated_at) THEN TimeStr(t) ELSE updated_at]

to_dict(e) ==
    [service    |-> e.service,
     username   |-> e.username,
     password   |-> e.password,
     notes      |-> e.notes,
     created_at |-> e.created_at,
     updated_at |-> e.updated_at]

\* dict.get(key, default)
DictGet(d, k, default) == IF k \in DOMAIN d THEN d[k] ELSE default

\* from_dict that stamps the entry at load time.
from_dict_fresh(d, t) ==
    IF {"service", "username", "password"} \subseteq DOMAIN d
    THEN Ok(PasswordEntry(d["service"], d["username"], d["password"],
                          DictGet(d, "notes", <<>>), None, None, t))
    ELSE Err

\* from_dict raises KeyError when service, username or password is missing.
from_dict(d, t) ==
    IF {"service", "username", "password"} \subseteq DOMAIN d
    THEN Ok(PasswordEntry(d["service"], d["username"], d["password"],
                          DictGet(d, "notes", <<>>),
                          DictGet(d, "created_at", None),
                          DictGet(d, "updated_at", None), t))
    ELSE Err

Keep(old, new) == IF new = None THEN old ELSE new

\* update that builds a new PasswordEntry, stamped at the time of the call.
update_recreated(e, service, username, password, notes, t) ==
    PasswordEntry(Keep(e.service, service), Keep(e.username, username),
                  Keep(e.password, password), Keep(e.notes, notes), None, None, t)

update(e, service, username, password, notes, t) ==
    [service    |-> Keep(e.service, service),
     username   |-> Keep(e.username, username),
     password   |-> Keep(e.password, password),
     notes      |-> Keep(e.notes, notes),
     created_at |-> e.created_at,
     updated_at |-> TimeStr(t)]

(***************************************************************************)
(* json.dumps and json.loads on the documents of the vault:                *)
(*   { [x <exported_at> ;] [e <entry>*] }   with                           *)
(*   <entry> = [ service , username , password , notes , created_at ,      *)
(*               updated_at ]                                              *)
(***************************************************************************)
StrChars == (48..57) \cup (65..90) \cup (97..122) \cup {201, 233}

EntryText(d) ==
    <<91>> \o d.service \o <<44>> \o d.username \o <<44>> \o d.password
           \o <<44>> \o d.notes \o <<44>> \o d.created_at
           \o <<44>> \o d.updated_at \o <<93>>

json_dumps(doc) ==
    <<123>>
    \o (IF "exported_at" \in DOMAIN doc
        THEN <<120>> \o doc["exported_at"] \o <<59>> ELSE <<>>)
    \o (IF "entries" \in DOMAIN doc
        THEN <<101>> \o Flatten([i \in DOMAIN doc["entries"] |->
                                    EntryText(doc["entries"][i])])
        ELSE <<>>)
    \o <<125>>

IsStr(s) == \A i \in DOMAIN s : s[i] \in StrChars

RECURSIVE ParseEntries(_)
ParseEntries(t) ==
    IF t = <<>> THEN Ok(<<>>)
    ELSE IF t[1] # 91 \/ IndexOf(t, 93) = 0 THEN Err
    ELSE LET j == IndexOf(t, 93)
             f == Split(SubSeq(t, 2, j - 1), 44)
             r == ParseEntries(SubSeq(t, j + 1, Len(t)))
         IN  IF Len(f) = 6 /\ (\A i \in 1..6 : IsStr(f[i])) /\ r.ok
             THEN Ok(<<[service |-> f[1], username |-> f[2], password |-> f[3],
                        notes |-> f[4], created_at |-> f[5],
                        updated_at |-> f[6]]>> \o r.val)
             ELSE Err

ParseEntriesKey(t, doc) ==
    IF t = <<>> THEN Ok(doc)
    ELSE IF t[1] # 101 THEN Err
    ELSE LET r == ParseEntries(Tail(t))
         IN  IF r.ok THEN Ok([k \in DOMAIN doc \cup {"entries"} |->
                                  IF k = "entries" THEN r.val ELSE doc[k]])
             ELSE Err

json_loads(t) ==
    IF Len(t) < 2 \/ t[1] # 123 \/ t[Len(t)] # 125 THEN Err
    ELSE LET body == SubSeq(t, 2, Len(t) - 1)
         IN  IF body # <<>> /\ body[1] = 120
             THEN LET j == IndexOf(body, 59)
                  IN  IF j = 0 \/ ~IsStr(SubSeq(body, 2, j - 1)) THEN Err
                      ELSE ParseEntriesKey(SubSeq(body, j + 1, Len(body)),
                                           [exported_at |-> SubSeq(body, 2, j - 1)])
             ELSE ParseEntriesKey(body, <<>>)

(***************************************************************************)
(* Byte strings that hold ciphertext.  combined = salt + iv + ciphertext   *)
(* is a record: plain are its leading bytes (salt and IV), ct its AES-CBC  *)
(* bytes, the first n bytes of the encryption of pt under key and iv.      *)
(***************************************************************************)
EmptyCt == [key |-> <<<<>>, <<>>>>, iv |-> <<>>, pt |-> <<>>, n |-> 0]

EmptyBytes == [plain |-> <<>>, ct |-> EmptyCt]

\* combined[a:b] inside the leading bytes (a, b as in Python: from a, before b).
Slice(c, a, b) == SubSeq(c.plain, a + 1, Min(b, Len(c.plain)))

\* combined[a:] where a is the end of the leading bytes.
SliceFrom(c, a) == IF Len(c.plain) >= a THEN c.ct ELSE EmptyCt

\* PBKDF2-HMAC-SHA256 of the UTF-8 password and the salt.
_derive_key(password, salt) == <<utf8_encode(password), salt>>

AesCbcEncrypt(key, iv, padded) ==
    [key |-> key, iv |-> iv, pt |-> padded, n |-> Len(padded)]

\* Pad with no padding block when the data fills its last block.
PadToMultiple(data_bytes) ==
    LET padding_length == (BlockSize - (Len(data_bytes) % BlockSize)) % BlockSize
    IN  data_bytes \o Repeat(padding_length, padding_length)

\* PKCS7: data_bytes + bytes([padding_length] * padding_length)
Pad(data_bytes) ==
    LET padding_length == BlockSize - (Len(data_bytes) % BlockSize)
    IN  data_bytes \o Repeat(padding_length, padding_length)

\* What a block of n bytes may decrypt to under a key that did not encrypt it:
\* a byte string of that length on which the caller has no hold.  The
\* representatives cover a final byte of 0, a final byte beyond the length,
\* invalid UTF-8, and the texts "A" (no JSON) and "{}" (the shortest JSON
\* object: two bytes and the final byte have to fit, one key in about 2^24)
\* followed by padding bytes.  A document with an "entries" key has fourteen
\* bytes to fit and is left out, like a repeated salt.
DecoyTexts == {<<65>>, <<123, 125>>}

Garbage(n) ==
    {Repeat(0, n), Repeat(255, n), <<255>> \o Repeat(1, n - 1)}
    \cup {Pad(utf8_encode(t)) : t \in {d \in DecoyTexts : Len(Pad(utf8_encode(d))) = n}}
    \cup {utf8_encode(t) \o Repeat(n - Len(utf8_encode(t)), n - Len(utf8_encode(t))) :
            t \in {d \in DecoyTexts : Len(utf8_encode(d)) < n}}

\* Cipher(AES(key), CBC(iv)).decryptor(): update(ct) + finalize().
AesCbcDecrypt(key, iv, ct) ==
    IF Len(iv) # iv_length THEN {Raise("ValueError: Invalid IV size")}
    ELSE IF ct.n % BlockSize # 0 THEN {Raise("ValueError: not a multiple of the block length")}
    ELSE IF ct.n = 0 THEN {Ok(<<>>)}
    ELSE IF ct.key = key /\ ct.iv = iv THEN {Ok(SubSeq(ct.pt, 1, ct.n))}
    ELSE {Ok(g) : g \in Garbage(ct.n)}

b64encode(c) == [valid |-> TRUE, bytes |-> c]

b64decode(t) == IF t.valid THEN Ok(t.bytes) ELSE Raise("binascii.Error")

\* encrypt_data that derives the key with a constant salt and uses a constant IV.
encrypt_data_static(data, password, salt, iv) ==
    LET salt0 == Repeat(0, salt_length)
        iv0 == Repeat(0, iv_length)
        key == _derive_key(password, salt0)
        encrypted_data == AesCbcEncrypt(key, iv0, Pad(utf8_encode(data)))
    IN  b64encode([plain |-> salt0 \o iv0, ct |-> encrypted_data])

encrypt_data(data, password, salt, iv) ==
    LET key == _derive_key(password, salt)
        encrypted_data == AesCbcEncrypt(key, iv, Pad(utf8_encode(data)))
    IN  b64encode([plain |-> salt \o iv, ct |-> encrypted_data])

\* Unpad that takes empty data as data without padding.
UnpadEmpty(padded_data) ==
    IF padded_data = <<>> THEN Ok(<<>>)
    ELSE LET padding_length == padded_data[Len(padded_data)]
         IN  IF padding_length = 0 \/ padding_length >= Len(padded_data)
             THEN Ok(<<>>)
             ELSE Ok(SubSeq(padded_data, 1, Len(padded_data) - padding_length))

\* padded_data[-1] and padded_data[:-padding_length], with Python's slicing.
Unpad(padded_data) ==
    IF padded_data = <<>> THEN Raise("IndexError")
    ELSE LET padding_length == padded_data[Len(padded_data)]
         IN  IF padding_length = 0 \/ padding_length >= Len(padded_data)
             THEN Ok(<<>>)
             ELSE Ok(SubSeq(padded_data, 1, Len(padded_data) - padding_length))

DecodePadded(r) ==
    IF ~r.ok THEN r
    ELSE LET u == Unpad(r.val)
         IN  IF ~u.ok THEN u
             ELSE IF utf8_decode(u.val).ok THEN utf8_decode(u.val)
             ELSE Raise("UnicodeDecodeError")

\* except Exception as e: raise ValueError("Nieprawidlowe haslo glowne lub
\* uszkodzone dane") from e.  Err is that ValueError.
Reraise(r) == IF r.ok THEN r ELSE Err

\* decrypt_data with no try/except around its body.
decrypt_data_bare(encrypted_data, password) ==
    LET d == b64decode(encrypted_data)
    IN  IF ~d.ok THEN {d}
        ELSE LET salt == Slice(d.val, 0, salt_length)
                 iv == Slice(d.val, salt_length, salt_length + iv_length)
                 encrypted_bytes == SliceFrom(d.val, salt_length + iv_length)
                 key == _derive_key(password, salt)
             IN  {DecodePadded(r) : r \in AesCbcDecrypt(key, iv, encrypted_bytes)}

\* The results decrypt_data can produce: Ok(text), or Err, the ValueError.
decrypt_data(encrypted_data, password) ==
    LET d == b64decode(encrypted_data)
    IN  IF ~d.ok THEN {Reraise(d)}
        ELSE LET salt == Slice(d.val, 0, salt_length)
                 iv == Slice(d.val, salt_length, salt_length + iv_length)
                 encrypted_bytes == SliceFrom(d.val, salt_length + iv_length)
                 key == _derive_key(password, salt)
             IN  {Reraise(DecodePadded(r)) :
                     r \in AesCbcDecrypt(key, iv, encrypted_bytes)}

(***************************************************************************)
(* Input domains.                                                          *)
(***************************************************************************)
\* Master passwords: "P", "Q".
Passwords == {<<80>>, <<81>>}

\* add_entry calls: ("G","a","p",""), ("g","A","e-acute","n"), ("G","b","p","").
AddCalls ==
    {<<<<71>>, <<97>>, <<112>>, <<>>>>,
     <<<<103>>, <<65>>, <<233>>, <<110>>>>,
     <<<<71>>, <<98>>, <<112>>, <<>>>>}

\* update_entry calls: (username="A") and
\* (service="g", username="A", password="e-acute", notes="n").
UpdateCalls ==
    {<<None, <<65>>, None, None>>,
     <<<<103>>, <<65>>, <<233>>, <<110>>>>}

\* search_entries calls: "g", "N".
Queries == {<<103>>, <<78>>}

\* os.urandom(salt_length), os.urandom(iv_length)
Salts == {Repeat(s, salt_length) : s \in 1..NumSalts}

Ivs == {Repeat(100 + v, iv_length) : v \in 1..NumIvs}

(***************************************************************************)
(* PasswordManager.                                                        *)
(***************************************************************************)
NoFile == [exists |-> FALSE, text |-> b64encode(EmptyBytes)]

NoArgs ==
    [service |-> None, username |-> None, password |-> None, notes |-> None,
     index |-> -9, master |-> None, query |-> None]

\* out: the list get_entries returned, and for lock_vault the entries it
\* discarded; hits: the list search_entries returned.
Result(op, ret, args) ==
    [op |-> op, ret |-> ret, args |-> args, out |-> <<>>, hits |-> <<>>,
     was_unlocked |-> is_unlocked, at |-> now]

NoProbe ==
    [op |-> "none", data |-> <<>>, password |-> <<>>, blob |-> b64encode(EmptyBytes),
     damage |-> "none", password2 |-> <<>>, result |-> Err]

\* os.urandom may return any value of the pool, also one it returned before,
\* and every write succeeds.
Reliable == [salts |-> Salts, ivs |-> Ivs, fresh |-> FALSE, faults |-> FALSE]

\* env after os.urandom returned salt and iv: a fresh source returns no value
\* twice.
Drawn(salt, iv) ==
    IF env.fresh
    THEN [env EXCEPT !.salts = @ \ {salt}, !.ivs = @ \ {iv}]
    ELSE env

\* A file holding nothing: open(path, 'w') has truncated it.
Truncated == [exists |-> TRUE, text |-> b64encode(EmptyBytes)]

\* A file holding a beginning of text: the write stopped inside the base64
\* text (no valid base64), or after the characters of all but the last block.
Partial(text) ==
    {[exists |-> TRUE, text |-> [valid |-> FALSE, bytes |-> EmptyBytes]],
     [exists |-> TRUE,
      text |-> [text EXCEPT !.bytes.ct.n = IF @ >= BlockSize THEN @ - BlockSize ELSE 0]]}

\* Writing by removing the old file first: a failed write leaves no file.
WriteOutcomesUnlink(old, new) ==
    {[file |-> new, ok |-> TRUE]}
    \cup (IF env.faults
          THEN {[file |-> old, ok |-> FALSE], [file |-> NoFile, ok |-> FALSE]}
          ELSE {})

\* with open(path, 'w') as f: f.write(text).  The file afterwards, and whether
\* the statement completed: open can raise (the old file stays), and write can
\* raise after open truncated the file.
WriteOutcomes(old, new) ==
    {[file |-> new, ok |-> TRUE]}
    \cup (IF env.faults
          THEN {[file |-> old, ok |-> FALSE], [file |-> Truncated, ok |-> FALSE]}
               \cup {[file |-> f, ok |-> FALSE] : f \in Partial(new.text)}
          ELSE {})

\* Byte strings of the length of padded that do not end in PKCS7 padding: a
\* last byte of 0, a last byte above the block size, a last byte of 2 after
\* a byte that is not 2.
BadPaddings(padded) ==
    LET n == Len(padded)
    IN  {SubSeq(padded, 1, n - 1) \o <<0>>,
         SubSeq(padded, 1, n - 1) \o <<BlockSize + 1>>,
         SubSeq(padded, 1, n - 1) \o <<255>>,
         SubSeq(padded, 1, n - 2) \o <<65, 2>>}

\* What a complete blob can become outside the program: text that is no
\* base64, a blob shorter than salt and IV, a ciphertext that lost its last
\* byte or its last block, a ciphertext whose last bytes were changed so
\* that it decrypts, under its own key, to data with bad padding.
Damaged(text) ==
    {[kind |-> "base64", text |-> [text EXCEPT !.valid = FALSE]],
     [kind |-> "header",
      text |-> [text EXCEPT !.bytes = [plain |-> SubSeq(@.plain, 1, salt_length + 4),
                                       ct |-> EmptyCt]]],
     [kind |-> "cut", text |-> [text EXCEPT !.bytes.ct.n = @ - 1]],
     [kind |-> "block", text |-> [text EXCEPT !.bytes.ct.n = @ - BlockSize]]}
    \cup {[kind |-> "padding", text |-> [text EXCEPT !.bytes.ct.pt = bad]] :
            bad \in BadPaddings(text.bytes.ct.pt)}

\* The file holds everything one _save_data or export_data wrote.
IsCompleteBlob(file) ==
    /\ file.exists /\ file.text.valid
    /\ Len(file.text.bytes.plain) = salt_length + iv_length
    /\ file.text.bytes.ct.n > 0
    /\ file.text.bytes.ct.n = Len(file.text.bytes.ct.pt)

memory == <<entries, master_password, is_unlocked>>

\* os.path.exists(self.data_file)
vault_exists == data_file.exists

files == <<data_file, export_file>>

\* A new PasswordManager on a path where no file exists, in the environment e.
Start(e) ==
    /\ entries = <<>>
    /\ master_password = None
    /\ is_unlocked = FALSE
    /\ data_file = NoFile
    /\ export_file = NoFile
    /\ now = 1
    /\ last = [op |-> "init", ret |-> TRUE, args |-> NoArgs, out |-> <<>>,
               hits |-> <<>>, was_unlocked |-> FALSE, at |-> 1]
    /\ probe = NoProbe
    /\ env = e
    /\ other = [entries |-> <<>>, master_password |-> None, is_unlocked |-> FALSE,
                last |-> [op |-> "init", ret |-> TRUE, args |-> NoArgs, out |-> <<>>,
                          hits |-> <<>>, was_unlocked |-> FALSE, at |-> 1]]

Init == Start(Reliable)

\* _save_data that serialises the entries as they were before the last append.
_save_data_stale(es, mp, salt, iv) ==
    LET old == SubSeq(es, 1, Len(es) - 1)
        data == [entries |-> [i \in DOMAIN old |-> to_dict(old[i])]]
    IN  [exists |-> TRUE, text |-> encrypt_data(json_dumps(data), mp, salt, iv)]

\* The file _save_data writes for the entries es under master password mp.
_save_data(es, mp, salt, iv) ==
    LET data == [entries |-> [i \in DOMAIN es |-> to_dict(es[i])]]
    IN  [exists |-> TRUE, text |-> encrypt_data(json_dumps(data), mp, salt, iv)]

AllFromDict(ds, t) ==
    IF \A i \in DOMAIN ds : from_dict(ds[i], t).ok
    THEN Ok([i \in DOMAIN ds |-> from_dict(ds[i], t).val])
    ELSE Err

LoadText(r, t) ==
    IF ~r.ok THEN Err
    ELSE LET data == json_loads(r.val)
         IN  IF data.ok THEN AllFromDict(DictGet(data.val, "entries", <<>>), t)
             ELSE Err

\* The results _load_data can produce: Ok(entries), or Err for any exception.
_load_data(file, password, t) ==
    {LoadText(r, t) : r \in decrypt_data(file.text, password)}

\* create_vault without the os.path.exists test.
create_vault_overwrite(P) ==
    \E salt \in env.salts, iv \in env.ivs :
        \E w \in WriteOutcomes(data_file, _save_data(<<>>, P, salt, iv)) :
            /\ master_password' = P
            /\ entries' = <<>>
            /\ is_unlocked' = TRUE
            /\ data_file' = w.file
            /\ env' = Drawn(salt, iv)
            /\ last' = Result("create_vault", w.ok, [NoArgs EXCEPT !.master = P])
            /\ UNCHANGED <<export_file, now, probe, other>>

create_vault(P) ==
    LET args == [NoArgs EXCEPT !.master = P]
    IN  IF data_file.exists
        THEN /\ last' = Result("create_vault", FALSE, args)
             /\ UNCHANGED <<memory, files, now, probe, other, env>>
        ELSE \E salt \in env.salts, iv \in env.ivs :
                \E w \in WriteOutcomes(data_file, _save_data(<<>>, P, salt, iv)) :
                    /\ master_password' = P
                    /\ entries' = <<>>
                    /\ is_unlocked' = TRUE
                    /\ data_file' = w.file
                    /\ env' = Drawn(salt, iv)
                    /\ last' = Result("create_vault", w.ok, args)
                    /\ UNCHANGED <<export_file, now, probe, other>>

\* unlock_vault whose loader empties self.entries before it reads the file.
unlock_vault_reset(P) ==
    LET args == [NoArgs EXCEPT !.master = P]
    IN  IF ~data_file.exists
        THEN /\ last' = Result("unlock_vault", FALSE, args)
             /\ UNCHANGED <<memory, files, now, probe, other, env>>
        ELSE \E r \in _load_data(data_file, P, now) :
                /\ IF r.ok
                   THEN /\ entries' = r.val
                        /\ master_password' = P
                        /\ is_unlocked' = TRUE
                   ELSE /\ entries' = <<>>
                        /\ UNCHANGED <<master_password, is_unlocked>>
                /\ last' = Result("unlock_vault", r.ok, args)
                /\ UNCHANGED <<files, now, probe, other, env>>

\* unlock_vault that stores the password before _load_data has succeeded.
unlock_vault_eager(P) ==
    LET args == [NoArgs EXCEPT !.master = P]
    IN  IF ~data_file.exists
        THEN /\ last' = Result("unlock_vault", FALSE, args)
             /\ UNCHANGED <<memory, files, now, probe, other, env>>
        ELSE \E r \in _load_data(data_file, P, now) :
                /\ master_password' = P
                /\ IF r.ok
                   THEN /\ entries' = r.val
                        /\ is_unlocked' = TRUE
                   ELSE UNCHANGED <<entries, is_unlocked>>
                /\ last' = Result("unlock_vault", r.ok, args)
                /\ UNCHANGED <<files, now, probe, other, env>>

unlock_vault(P) ==
    LET args == [NoArgs EXCEPT !.master = P]
    IN  IF ~data_file.exists
        THEN /\ last' = Result("unlock_vault", FALSE, args)
             /\ UNCHANGED <<memory, files, now, probe, other, env>>
        ELSE \E r \in _load_data(data_file, P, now) :
                /\ IF r.ok
                   THEN /\ entries' = r.val
                        /\ master_password' = P
                        /\ is_unlocked' = TRUE
                   ELSE UNCHANGED memory
                /\ last' = Result("unlock_vault", r.ok, args)
                /\ UNCHANGED <<files, now, probe, other, env>>

\* lock_vault that keeps the master password in memory.
lock_vault_remember ==
    /\ is_unlocked' = FALSE
    /\ entries' = <<>>
    /\ UNCHANGED master_password
    /\ last' = [Result("lock_vault", TRUE, [NoArgs EXCEPT !.master = master_password])
                   EXCEPT !.out = entries]
    /\ UNCHANGED <<files, now, probe, other, env>>

\* lock_vault that keeps the entries in memory.
lock_vault_keep ==
    /\ master_password' = None
    /\ is_unlocked' = FALSE
    /\ UNCHANGED entries
    /\ last' = [Result("lock_vault", TRUE, [NoArgs EXCEPT !.master = master_password])
                   EXCEPT !.out = entries]
    /\ UNCHANGED <<files, now, probe, other, env>>

lock_vault ==
    /\ master_password' = None
    /\ is_unlocked' = FALSE
    /\ entries' = <<>>
    /\ last' = [Result("lock_vault", TRUE, [NoArgs EXCEPT !.master = master_password])
                   EXCEPT !.out = entries]
    /\ UNCHANGED <<files, now, probe, other, env>>

\* The duplicate test without .lower().
IsDuplicateExact(e, service, username) ==
    e.service = service /\ e.username = username

\* The duplicate test of add_entry and import_data.
IsDuplicate(e, service, username) ==
    lower(e.service) = lower(service) /\ lower(e.username) = lower(username)

\* add_entry without the is_unlocked test: while locked the entry is appended
\* and the save raises, so the call returns False.
add_entry_unguarded(service, username, password, notes) ==
    LET args == [NoArgs EXCEPT !.service = service, !.username = username,
                               !.password = password, !.notes = notes]
    IN  IF \E i \in DOMAIN entries : IsDuplicate(entries[i], service, username)
        THEN /\ last' = Result("add_entry", FALSE, args)
             /\ UNCHANGED <<memory, files, now, probe, other, env>>
        ELSE /\ Len(entries) < MaxEntries
             /\ entries' = Append(entries, PasswordEntry(service, username, password,
                                                         notes, None, None, now))
             /\ IF is_unlocked
                THEN \E salt \in env.salts, iv \in env.ivs :
                        \E w \in WriteOutcomes(data_file,
                                     _save_data(entries', master_password, salt, iv)) :
                            /\ data_file' = w.file
                            /\ env' = Drawn(salt, iv)
                            /\ last' = Result("add_entry", w.ok, args)
                ELSE /\ last' = Result("add_entry", FALSE, args)
                     /\ UNCHANGED <<data_file, env>>
             /\ UNCHANGED <<master_password, is_unlocked, export_file, now, probe, other>>

\* add_entry that reads the vault file again before it appends.
add_entry_reload(service, username, password, notes) ==
    LET args == [NoArgs EXCEPT !.service = service, !.username = username,
                               !.password = password, !.notes = notes]
    IN  IF ~is_unlocked
        THEN /\ last' = Result("add_entry", FALSE, args)
             /\ UNCHANGED <<memory, files, now, probe, env, other>>
        ELSE \E r \in _load_data(data_file, master_password, now) :
                LET current == IF r.ok THEN r.val ELSE entries
                IN  IF \E i \in DOMAIN current :
                            IsDuplicate(current[i], service, username)
                    THEN /\ last' = Result("add_entry", FALSE, args)
                         /\ UNCHANGED <<memory, files, now, probe, env, other>>
                    ELSE /\ Len(current) < MaxEntries
                         /\ \E salt \in env.salts, iv \in env.ivs :
                              LET new_entry == PasswordEntry(service, username, password,
                                                             notes, None, None, now)
                                  es == Append(current, new_entry)
                              IN  \E w \in WriteOutcomes(data_file,
                                               _save_data(es, master_password, salt, iv)) :
                                      /\ entries' = es
                                      /\ data_file' = w.file
                                      /\ env' = Drawn(salt, iv)
                                      /\ last' = Result("add_entry", w.ok, args)
                         /\ UNCHANGED <<master_password, is_unlocked, export_file,
                                        now, probe, other>>

add_entry(service, username, password, notes) ==
    LET args == [NoArgs EXCEPT !.service = service, !.username = username,
                               !.password = password, !.notes = notes]
    IN  IF ~is_unlocked \/ \E i \in DOMAIN entries :
                                IsDuplicate(entries[i], service, username)
        THEN /\ last' = Result("add_entry", FALSE, args)
             /\ UNCHANGED <<memory, files, now, probe, other, env>>
        ELSE /\ Len(entries) < MaxEntries
             /\ \E salt \in env.salts, iv \in env.ivs :
                  LET new_entry == PasswordEntry(service, username, password,
                                                 notes, None, None, now)
                      es == Append(entries, new_entry)
                  IN  \E w \in WriteOutcomes(data_file,
                                   _save_data(es, master_password, salt, iv)) :
                          /\ entries' = es
                          /\ data_file' = w.file
                          /\ env' = Drawn(salt, iv)
                          /\ last' = Result("add_entry", w.ok, args)
             /\ UNCHANGED <<master_password, is_unlocked, export_file, now, probe, other>>

update_entry(index, service, username, password, notes) ==
    LET args == [NoArgs EXCEPT !.index = index]
    IN  IF ~is_unlocked \/ index < 0 \/ index >= Len(entries)
        THEN /\ last' = Result("update_entry", FALSE, args)
             /\ UNCHANGED <<memory, files, now, probe, other, env>>
        ELSE /\ entries' = [entries EXCEPT ![index + 1] =
                               update(@, service, username, password, notes, now)]
             /\ \E salt \in env.salts, iv \in env.ivs :
                  \E w \in WriteOutcomes(data_file,
                               _save_data(entries', master_password, salt, iv)) :
                      /\ data_file' = w.file
                      /\ env' = Drawn(salt, iv)
                      /\ last' = Result("update_entry", w.ok, args)
             /\ UNCHANGED <<master_password, is_unlocked, export_file, now, probe, other>>

\* del self.entries[index]
\* self.entries.pop(): the last entry goes, whatever the index.
DelLast(es, index) == SubSeq(es, 1, Len(es) - 1)

DelAt(es, index) == SubSeq(es, 1, index) \o SubSeq(es, index + 2, Len(es))

\* delete_entry without the index < 0 test: del self.entries[-1] removes the
\* last entry.
delete_entry_negative(index) ==
    LET args == [NoArgs EXCEPT !.index = index]
        at == IF index < 0 THEN index + Len(entries) ELSE index
    IN  IF ~is_unlocked \/ at < 0 \/ at >= Len(entries)
        THEN /\ last' = Result("delete_entry", FALSE, args)
             /\ UNCHANGED <<memory, files, now, probe, other, env>>
        ELSE /\ entries' = DelAt(entries, at)
             /\ \E salt \in env.salts, iv \in env.ivs :
                  \E w \in WriteOutcomes(data_file,
                               _save_data(entries', master_password, salt, iv)) :
                      /\ data_file' = w.file
                      /\ env' = Drawn(salt, iv)
                      /\ last' = Result("delete_entry", w.ok, args)
             /\ UNCHANGED <<master_password, is_unlocked, export_file, now, probe, other>>

delete_entry(index) ==
    LET args == [NoArgs EXCEPT !.index = index]
    IN  IF ~is_unlocked \/ index < 0 \/ index >= Len(entries)
        THEN /\ last' = Result("delete_entry", FALSE, args)
             /\ UNCHANGED <<memory, files, now, probe, other, env>>
        ELSE /\ entries' = DelAt(entries, index)
             /\ \E salt \in env.salts, iv \in env.ivs :
                  \E w \in WriteOutcomes(data_file,
                               _save_data(entries', master_password, salt, iv)) :
                      /\ data_file' = w.file
                      /\ env' = Drawn(salt, iv)
                      /\ last' = Result("delete_entry", w.ok, args)
             /\ UNCHANGED <<master_password, is_unlocked, export_file, now, probe, other>>

\* The condition with the password among the fields searched.
MatchesAnyField(e, query) ==
    \/ Contains(lower(query), lower(e.service))
    \/ Contains(lower(query), lower(e.username))
    \/ Contains(lower(query), lower(e.password))
    \/ Contains(lower(query), lower(e.notes))

Matches(e, query) ==
    \/ Contains(lower(query), lower(e.service))
    \/ Contains(lower(query), lower(e.username))
    \/ Contains(lower(query), lower(e.notes))

RECURSIVE SearchFrom(_, _, _)
SearchFrom(es, i, query) ==
    IF i > Len(es) THEN <<>>
    ELSE (IF Matches(es[i], query) THEN <<i - 1>> ELSE <<>>)
         \o SearchFrom(es, i + 1, query)

search_entries(query) ==
    /\ last' = [Result("search_entries", TRUE, [NoArgs EXCEPT !.query = query]) EXCEPT
                   !.hits = IF is_unlocked THEN SearchFrom(entries, 1, query)
                            ELSE <<>>]
    /\ UNCHANGED <<memory, files, now, probe, other, env>>

get_entries ==
    /\ last' = [Result("get_entries", TRUE, NoArgs) EXCEPT
                   !.out = IF is_unlocked THEN entries ELSE <<>>]
    /\ UNCHANGED <<memory, files, now, probe, other, env>>

\* The file export_data writes.
ExportFile(es, mp, t, salt, iv) ==
    LET data == [exported_at |-> TimeStr(t),
                 entries |-> [i \in DOMAIN es |-> to_dict(es[i])]]
    IN  [exists |-> TRUE, text |-> encrypt_data(json_dumps(data), mp, salt, iv)]

export_data ==
    IF ~is_unlocked
    THEN /\ last' = Result("export_data", FALSE, NoArgs)
         /\ UNCHANGED <<memory, files, now, probe, other, env>>
    ELSE \E salt \in env.salts, iv \in env.ivs :
            \E w \in WriteOutcomes(export_file,
                         ExportFile(entries, master_password, now, salt, iv)) :
                /\ export_file' = w.file
                /\ env' = Drawn(salt, iv)
                /\ last' = Result("export_data", w.ok, NoArgs)
                /\ UNCHANGED <<memory, data_file, now, probe, other>>

\* The loop without the duplicate test: every entry of the file is appended.
RECURSIVE ImportLoopAll(_, _, _)
ImportLoopAll(es, ds, t) ==
    IF ds = <<>> THEN Ok(es)
    ELSE LET e == from_dict(Head(ds), t)
         IN  IF ~e.ok THEN [ok |-> FALSE, val |-> es]
             ELSE ImportLoopAll(Append(es, e.val), Tail(ds), t)

\* The loop leaving at the first duplicate instead of skipping it.
RECURSIVE ImportLoopBreak(_, _, _)
ImportLoopBreak(es, ds, t) ==
    IF ds = <<>> THEN Ok(es)
    ELSE LET e == from_dict(Head(ds), t)
         IN  IF ~e.ok THEN [ok |-> FALSE, val |-> es]
             ELSE IF \E i \in DOMAIN es :
                        IsDuplicate(es[i], e.val.service, e.val.username)
                  THEN Ok(es)
                  ELSE ImportLoopBreak(Append(es, e.val), Tail(ds), t)

\* The loop of import_data over import_data['entries']: the entries after it,
\* ok = FALSE when from_dict raised (the entries appended so far stay).
RECURSIVE ImportLoop(_, _, _)
ImportLoop(es, ds, t) ==
    IF ds = <<>> THEN Ok(es)
    ELSE LET e == from_dict(Head(ds), t)
         IN  IF ~e.ok THEN [ok |-> FALSE, val |-> es]
             ELSE IF \E i \in DOMAIN es :
                        IsDuplicate(es[i], e.val.service, e.val.username)
                  THEN ImportLoop(es, Tail(ds), t)
                  ELSE ImportLoop(Append(es, e.val), Tail(ds), t)

\* Reading the entries with .get('entries', []) as _load_data does.
ReadImportLenient(r) ==
    IF ~r.ok THEN Err
    ELSE LET data == json_loads(r.val)
         IN  IF data.ok THEN Ok(DictGet(data.val, "entries", <<>>)) ELSE Err

\* Decrypting and parsing the import file: Ok(list of entry dicts) or Err.
ReadImport(r) ==
    IF ~r.ok THEN Err
    ELSE LET data == json_loads(r.val)
         IN  IF data.ok /\ "entries" \in DOMAIN data.val
             THEN Ok(data.val["entries"]) ELSE Err

\* import_file is the file at the path given to import_data.
import_data(import_file) ==
    IF ~is_unlocked \/ ~import_file.exists
    THEN /\ last' = Result("import_data", FALSE, NoArgs)
         /\ UNCHANGED <<memory, files, now, probe, other, env>>
    ELSE \E r \in decrypt_data(import_file.text, master_password) :
            LET ds == ReadImport(r)
                merged == ImportLoop(entries, ds.val, now)
            IN  IF ~ds.ok
                THEN /\ last' = Result("import_data", FALSE, NoArgs)
                     /\ UNCHANGED <<memory, files, now, probe, other, env>>
                ELSE /\ Len(merged.val) <= MaxEntries
                     /\ entries' = merged.val
                     /\ IF merged.ok
                        THEN \E salt \in env.salts, iv \in env.ivs :
                               \E w \in WriteOutcomes(data_file,
                                            _save_data(entries', master_password,
                                                       salt, iv)) :
                                   /\ data_file' = w.file
                                   /\ env' = Drawn(salt, iv)
                                   /\ last' = Result("import_data", w.ok, NoArgs)
                        ELSE /\ last' = Result("import_data", FALSE, NoArgs)
                             /\ UNCHANGED <<data_file, env>>
                     /\ UNCHANGED <<master_password, is_unlocked, export_file,
                                    now, probe, other>>

\* datetime.now() advances between calls.
Tick ==
    /\ now < MaxTime
    /\ now' = now + 1
    /\ UNCHANGED <<memory, files, last, probe, other, env>>

(***************************************************************************)
(* Spec: the vault's lifecycle and entry operations.  import_data reads    *)
(* files the caller supplies.                                              *)
(***************************************************************************)
\* Files a caller may hand to import_data: a missing path, and exports of
\* vault contents written under either master password.
ImportLists ==
    {<<>>,
     <<PasswordEntry(<<71>>, <<98>>, <<112>>, <<>>, None, None, 1)>>,
     <<PasswordEntry(<<103>>, <<65>>, <<233>>, <<110>>, None, None, 1),
       PasswordEntry(<<71>>, <<98>>, <<112>>, <<>>, None, None, 1)>>}

ImportFiles ==
    {NoFile} \cup
    {ExportFile(es, mp, 1, Repeat(9, salt_length), Repeat(109, iv_length)) :
        es \in ImportLists, mp \in Passwords}

Next ==
    \/ \E P \in Passwords : create_vault(P)
    \/ \E P \in Passwords : unlock_vault(P)
    \/ lock_vault
    \/ \E c \in AddCalls : add_entry(c[1], c[2], c[3], c[4])
    \/ \E i \in -1..MaxEntries, c \in UpdateCalls :
          update_entry(i, c[1], c[2], c[3], c[4])
    \/ \E i \in -1..MaxEntries : delete_entry(i)
    \/ \E q \in Queries : search_entries(q)
    \/ get_entries
    \/ \E f \in ImportFiles : import_data(f)

Spec == Init /\ [][Next]_vars

(***************************************************************************)
(* SpecExport: one master password and one identity, with export_data and  *)
(* import_data of the file export_data wrote.                              *)
(***************************************************************************)
\* "P"
ExportPassword == <<80>>

\* add_entry calls: ("G","a","p",""), ("g","A","e-acute","n").
ExportAddCalls ==
    {<<<<71>>, <<97>>, <<112>>, <<>>>>,
     <<<<103>>, <<65>>, <<233>>, <<110>>>>}

NextExport ==
    \/ create_vault(ExportPassword)
    \/ unlock_vault(ExportPassword)
    \/ lock_vault
    \/ \E c \in ExportAddCalls : add_entry(c[1], c[2], c[3], c[4])
    \/ \E i \in -1..MaxEntries, c \in UpdateCalls :
          update_entry(i, c[1], c[2], c[3], c[4])
    \/ \E i \in -1..MaxEntries : delete_entry(i)
    \/ \E q \in Queries : search_entries(q)
    \/ get_entries
    \/ export_data
    \/ import_data(export_file)

SpecExport == Init /\ [][NextExport]_vars

(***************************************************************************)
(* SpecClock: one master password and two identities, with a clock that    *)
(* advances between calls.                                                 *)
(***************************************************************************)
\* add_entry calls: ("G","a","p",""), ("G","b","p","n").
ClockAddCalls ==
    {<<<<71>>, <<97>>, <<112>>, <<>>>>,
     <<<<71>>, <<98>>, <<112>>, <<110>>>>}

\* update_entry call: (password="e-acute").
ClockUpdateCalls == {<<None, None, <<233>>, None>>}

NextClock ==
    \/ create_vault(ExportPassword)
    \/ unlock_vault(ExportPassword)
    \/ lock_vault
    \/ \E c \in ClockAddCalls : add_entry(c[1], c[2], c[3], c[4])
    \/ \E i \in 0..1, c \in ClockUpdateCalls :
          update_entry(i, c[1], c[2], c[3], c[4])
    \/ \E i \in 0..1 : delete_entry(i)
    \/ get_entries
    \/ Tick

SpecClock == Init /\ [][NextClock]_vars

(***************************************************************************)
(* SpecFresh: os.urandom never returns a value twice.                      *)
(***************************************************************************)
MaxDraws == 3

FreshSalts == {Repeat(s, salt_length) : s \in 1..MaxDraws}

FreshIvs == {Repeat(100 + v, iv_length) : v \in 1..MaxDraws}

FreshSource ==
    [salts |-> FreshSalts, ivs |-> FreshIvs, fresh |-> TRUE, faults |-> FALSE]

InitFresh == Start(FreshSource)

\* update_entry(i) with no new values, at the time the entry was created:
\* the entries persisted are the ones the file already holds.
NextFresh ==
    \/ create_vault(ExportPassword)
    \/ unlock_vault(ExportPassword)
    \/ lock_vault
    \/ \E c \in ExportAddCalls : add_entry(c[1], c[2], c[3], c[4])
    \/ \E i \in 0..1 : update_entry(i, None, None, None, None)
    \/ \E i \in 0..1 : delete_entry(i)
    \/ export_data
    \/ import_data(export_file)

SpecFresh == InitFresh /\ [][NextFresh]_vars

(***************************************************************************)
(* SpecFault: opening or writing a file can fail.                          *)
(***************************************************************************)
Faulty == [Reliable EXCEPT !.faults = TRUE]

InitFault == Start(Faulty)

NextFault ==
    \/ create_vault(ExportPassword)
    \/ unlock_vault(ExportPassword)
    \/ lock_vault
    \/ \E c \in ExportAddCalls : add_entry(c[1], c[2], c[3], c[4])
    \/ \E i \in 0..1 : update_entry(i, None, <<65>>, None, None)
    \/ \E i \in 0..1 : delete_entry(i)
    \/ get_entries

SpecFault == InitFault /\ [][NextFault]_vars

(***************************************************************************)
(* SpecSearch: search_entries over entries with longer fields.             *)
(***************************************************************************)
\* add_entry calls: ("Git","bob","pw","note"), ("mail","Ann","git","").
SearchAddCalls ==
    {<<<<71, 105, 116>>, <<98, 111, 98>>, <<112, 119>>, <<110, 111, 116, 101>>>>,
     <<<<109, 97, 105, 108>>, <<65, 110, 110>>, <<103, 105, 116>>, <<>>>>}

\* search_entries calls: "IT", "N", "", "x", "pw".
SearchQueries == {<<73, 84>>, <<78>>, <<>>, <<120>>, <<112, 119>>}

NextSearch ==
    \/ create_vault(ExportPassword)
    \/ unlock_vault(ExportPassword)
    \/ lock_vault
    \/ \E c \in SearchAddCalls : add_entry(c[1], c[2], c[3], c[4])
    \/ \E i \in 0..1 : delete_entry(i)
    \/ \E q \in SearchQueries : search_entries(q)

SpecSearch == Init /\ [][NextSearch]_vars

(***************************************************************************)
(* SpecCorrupt: the vault file is damaged outside the program, and a       *)
(* caller runs decrypt_data on the file's text as _load_data does, and     *)
(* gives the vault file's path to import_data.                             *)
(***************************************************************************)
DamageFile ==
    /\ IsCompleteBlob(data_file)
    /\ \E d \in Damaged(data_file.text) :
          data_file' = [data_file EXCEPT !.text = d.text]
    /\ last' = Result("damage", TRUE, NoArgs)
    /\ UNCHANGED <<memory, export_file, now, probe, other, env>>

\* out: what decrypt_data returned or raised.
DecryptFile(password) ==
    /\ data_file.exists
    /\ \E r \in decrypt_data(data_file.text, password) :
          last' = [Result("decrypt_data", r.ok, [NoArgs EXCEPT !.master = password])
                      EXCEPT !.out = r]
    /\ UNCHANGED <<memory, files, now, probe, other, env>>

NextCorrupt ==
    \/ \E P \in Passwords : create_vault(P)
    \/ \E P \in Passwords : unlock_vault(P)
    \/ lock_vault
    \/ \E c \in ExportAddCalls : add_entry(c[1], c[2], c[3], c[4])
    \/ DamageFile
    \/ \E P \in Passwords : DecryptFile(P)
    \/ import_data(data_file)

SpecCorrupt == Init /\ [][NextCorrupt]_vars

(***************************************************************************)
(* SpecImport: import_data of files whose entries repeat entries of the    *)
(* vault and of the file itself, and of files written under another master *)
(* password.  The caller puts the file to import at the export path.       *)
(***************************************************************************)
\* ("g","A","e-acute","n"), ("G","a","p",""), ("G","b","p",""); ("G","b","p","");
\* no entries.
MergeLists ==
    {<<PasswordEntry(<<103>>, <<65>>, <<233>>, <<110>>, None, None, 1),
       PasswordEntry(<<71>>, <<97>>, <<112>>, <<>>, None, None, 1),
       PasswordEntry(<<71>>, <<98>>, <<112>>, <<>>, None, None, 1)>>,
     <<PasswordEntry(<<71>>, <<98>>, <<112>>, <<>>, None, None, 1)>>,
     <<>>}

MergeFiles ==
    {ExportFile(es, ExportPassword, 1, Repeat(9, salt_length), Repeat(109, iv_length)) :
        es \in MergeLists}

\* The same exports written by a vault under the master password "Q".
ForeignFiles ==
    {ExportFile(es, <<81>>, 1, Repeat(9, salt_length), Repeat(109, iv_length)) :
        es \in MergeLists}

PlaceImportFile(f) ==
    /\ export_file' = f
    /\ last' = Result("copy_file", TRUE, NoArgs)
    /\ UNCHANGED <<memory, data_file, now, probe, other, env>>

NextImport ==
    \/ create_vault(ExportPassword)
    \/ unlock_vault(ExportPassword)
    \/ lock_vault
    \/ \E c \in ClockAddCalls : add_entry(c[1], c[2], c[3], c[4])
    \/ \E i \in 0..1 : delete_entry(i)
    \/ \E f \in MergeFiles \cup ForeignFiles : PlaceImportFile(f)
    \/ import_data(export_file)

SpecImport == Init /\ [][NextImport]_vars

(***************************************************************************)
(* SpecCrypto: encrypt_data and decrypt_data called on their own.          *)
(***************************************************************************)
MaxTextLen == 33

\* Plaintexts: "A" * n, a text whose UTF-8 form fills one block with 15 code
\* points, texts that end in bytes that look like padding, a JSON document.
Plaintexts ==
    {Repeat(65, n) : n \in 0..MaxTextLen}
    \cup {<<233>> \o Repeat(65, 14),
          Repeat(65, 15) \o <<1>>,
          Repeat(16, 16),
          Repeat(65, 14) \o <<2, 2>>,
          json_dumps([entries |-> <<>>])}

\* One blob per behaviour: encrypt_data, then damage or not, then decrypt_data.
EncryptCall(data, password, salt, iv) ==
    /\ probe.op = "none"
    /\ probe' = [op |-> "encrypt", data |-> data, password |-> password,
                 blob |-> encrypt_data(data, password, salt, iv),
                 damage |-> "none", password2 |-> <<>>, result |-> Err]
    /\ env' = Drawn(salt, iv)
    /\ UNCHANGED <<memory, files, now, last, other>>

\* The blob is damaged between encrypt_data and decrypt_data.
TamperCall ==
    /\ probe.op = "encrypt"
    /\ \E d \in Damaged(probe.blob) :
          probe' = [probe EXCEPT !.op = "tamper", !.blob = d.text, !.damage = d.kind]
    /\ UNCHANGED <<memory, files, now, last, env, other>>

DecryptCall(password) ==
    /\ probe.op \in {"encrypt", "tamper"}
    /\ \E r \in decrypt_data(probe.blob, password) :
          probe' = [probe EXCEPT !.op = "decrypt", !.password2 = password,
                                 !.result = r]
    /\ UNCHANGED <<memory, files, now, last, env, other>>

NextCrypto ==
    \/ \E d \in Plaintexts, p \in Passwords, salt \in env.salts, iv \in env.ivs :
          EncryptCall(d, p, salt, iv)
    \/ TamperCall
    \/ \E p \in Passwords : DecryptCall(p)

SpecCrypto == Init /\ [][NextCrypto]_vars

(***************************************************************************)
(* SpecDelete: delete_entry on a vault of three entries.  The vault file   *)
(* was written by an earlier run of the program; the manager is new.       *)
(***************************************************************************)
\* ("G","a","p",""), ("H","b","q","n"), ("I","c","r","").
StoredEntries ==
    <<PasswordEntry(<<71>>, <<97>>, <<112>>, <<>>, None, None, 1),
      PasswordEntry(<<72>>, <<98>>, <<113>>, <<110>>, None, None, 1),
      PasswordEntry(<<73>>, <<99>>, <<114>>, <<>>, None, None, 1)>>

InitDelete ==
    /\ entries = <<>>
    /\ master_password = None
    /\ is_unlocked = FALSE
    /\ data_file = _save_data(StoredEntries, ExportPassword,
                              Repeat(9, salt_length), Repeat(109, iv_length))
    /\ export_file = NoFile
    /\ now = 1
    /\ last = [op |-> "init", ret |-> TRUE, args |-> NoArgs, out |-> <<>>,
               hits |-> <<>>, was_unlocked |-> FALSE, at |-> 1]
    /\ probe = NoProbe
    /\ env = Reliable
    /\ other = [entries |-> <<>>, master_password |-> None, is_unlocked |-> FALSE,
                last |-> [op |-> "init", ret |-> TRUE, args |-> NoArgs, out |-> <<>>,
                          hits |-> <<>>, was_unlocked |-> FALSE, at |-> 1]]

NextDelete ==
    \/ unlock_vault(ExportPassword)
    \/ lock_vault
    \/ \E c \in ClockAddCalls : add_entry(c[1], c[2], c[3], c[4])
    \/ \E i \in -1..3 : delete_entry(i)
    \/ get_entries

SpecDelete == InitDelete /\ [][NextDelete]_vars

(***************************************************************************)
(* SpecTransfer: export_data and import_data of the exported file on a     *)
(* vault of up to two different entries.                                   *)
(***************************************************************************)
NextTransfer ==
    \/ create_vault(ExportPassword)
    \/ unlock_vault(ExportPassword)
    \/ lock_vault
    \/ \E c \in ClockAddCalls : add_entry(c[1], c[2], c[3], c[4])
    \/ \E i \in 0..1 : delete_entry(i)
    \/ export_data
    \/ import_data(export_file)

SpecTransfer == Init /\ [][NextTransfer]_vars

(***************************************************************************)
(* SpecShared: two PasswordManager instances (two processes) on the same   *)
(* data_file.  Each call runs to its end before the next begins; Switch    *)
(* makes the other instance the one that is called next.                   *)
(***************************************************************************)
Switch ==
    /\ entries' = other.entries
    /\ master_password' = other.master_password
    /\ is_unlocked' = other.is_unlocked
    /\ last' = other.last
    /\ other' = [entries |-> entries, master_password |-> master_password,
                 is_unlocked |-> is_unlocked, last |-> last]
    /\ UNCHANGED <<files, now, probe, env>>

NextShared ==
    \/ create_vault(ExportPassword)
    \/ unlock_vault(ExportPassword)
    \/ lock_vault
    \/ \E c \in ClockAddCalls : add_entry(c[1], c[2], c[3], c[4])
    \/ Switch

SpecShared == Init /\ [][NextShared]_vars

(***************************************************************************)
(* generator.py: PasswordGenerator.  A password is a sequence of code      *)
(* points.  secrets.choice and the shuffle of secrets.SystemRandom are the  *)
(* operating system's random source: every outcome is possible.            *)
(***************************************************************************)
lowercase == [i \in 1..26 |-> 96 + i]

uppercase == [i \in 1..26 |-> 64 + i]

digits == [i \in 1..10 |-> 47 + i]

\* "!@#$%^&*()_+-=[]{}|;:,.<>?"
special ==
    <<33, 64, 35, 36, 37, 94, 38, 42, 40, 41, 95, 43, 45, 61, 91, 93, 123, 125,
      124, 59, 58, 44, 46, 60, 62, 63>>

\* chars.replace(c, '')
Without(chars, c) == SelectSeq(chars, LAMBDA x : x # c)

\* The character classes in the order the code visits them, each with the
\* similar-looking characters l o / I O / 0 1 removed on request.
EnabledClasses(use_uppercase, use_lowercase, use_digits, use_special, exclude_similar) ==
    (IF use_lowercase
     THEN <<IF exclude_similar THEN Without(Without(lowercase, 108), 111)
            ELSE lowercase>>
     ELSE <<>>)
    \o (IF use_uppercase
        THEN <<IF exclude_similar THEN Without(Without(uppercase, 73), 79)
               ELSE uppercase>>
        ELSE <<>>)
    \o (IF use_digits
        THEN <<IF exclude_similar THEN Without(Without(digits, 48), 49)
               ELSE digits>>
        ELSE <<>>)
    \o (IF use_special THEN <<special>> ELSE <<>>)

\* secrets.choice(chars) returns any element of chars; the positions explored
\* are the first and the last.
choice(chars) == {chars[1], chars[Len(chars)]}

\* The lists of required characters: one choice per enabled class.
RequiredChars(classes) ==
    {r \in [DOMAIN classes -> UNION {choice(classes[i]) : i \in DOMAIN classes}] :
        \A i \in DOMAIN classes : r[i] \in choice(classes[i])}

\* SystemRandom().shuffle(password): the Fisher-Yates swaps can produce every
\* order of the list.
shuffle(password) ==
    {[i \in DOMAIN password |-> password[perm[i]]] :
        perm \in Permutations(DOMAIN password)}

\* generate_password that draws every character from the whole charset.
generate_password_unrequired(length, use_uppercase, use_lowercase, use_digits, use_special, exclude_similar) ==
    IF length < 4 THEN {Raise("ValueError")}
    ELSE LET charset == Flatten(EnabledClasses(use_uppercase, use_lowercase,
                                use_digits, use_special, exclude_similar))
         IN  IF charset = <<>> THEN {Raise("ValueError")}
             ELSE {Ok(fill) : fill \in [1..length -> choice(charset)]}

\* generate_password: the set of results the random source can lead to, each
\* Ok(password) or the ValueError of lines 38 and 70.
generate_password(length, use_uppercase, use_lowercase, use_digits, use_special, exclude_similar) ==
    IF length < 4 THEN {Raise("ValueError")}
    ELSE LET classes == EnabledClasses(use_uppercase, use_lowercase, use_digits,
                                       use_special, exclude_similar)
             charset == Flatten(classes)
         IN  IF charset = <<>> THEN {Raise("ValueError")}
             ELSE {Ok(password) : password \in
                      UNION {shuffle(required \o fill) :
                                required \in RequiredChars(classes),
                                fill \in [1..(length - Len(classes)) -> choice(charset)]}}

\* Requested lengths: one below the minimum, and 4..MaxLength.  One call per
\* behaviour.
MaxLength == 5

Lengths == 3..MaxLength

GenerateCall(length, use_uppercase, use_lowercase, use_digits, use_special, exclude_similar) ==
    /\ probe.op = "none"
    /\ \E r \in generate_password(length, use_uppercase, use_lowercase, use_digits,
                                  use_special, exclude_similar) :
          probe' = [op |-> "generate_password", length |-> length,
                    use_uppercase |-> use_uppercase, use_lowercase |-> use_lowercase,
                    use_digits |-> use_digits, use_special |-> use_special,
                    exclude_similar |-> exclude_similar,
                    result |-> r]
    /\ UNCHANGED <<memory, files, now, last, env, other>>

\* any(c in chars for c in password)
HasAny(password, chars) ==
    \E i \in DOMAIN password : \E j \in DOMAIN chars : chars[j] = password[i]

\* The number of positions where three consecutive code points ascend by one.
sequential_count(password) ==
    Cardinality({i \in 1..(Len(password) - 2) :
                    /\ password[i] + 1 = password[i + 1]
                    /\ password[i + 1] + 1 = password[i + 2]})

\* len(set(password)) < len(password) * 0.7; on lengths below 200 the float
\* product decides as the integers do.
Repetitive(password) ==
    10 * Cardinality({password[i] : i \in DOMAIN password}) < 7 * Len(password)

\* score before the return statement (lines 101-146).
RawScore(password) ==
    LET length == Len(password)
        char_types ==
            Cardinality({chars \in {lowercase, uppercase, digits, special} :
                            HasAny(password, chars)})
    IN  (IF length >= 12 THEN 25 ELSE IF length >= 8 THEN 15
         ELSE IF length >= 6 THEN 10 ELSE 0)
        + char_types * 15
        - (IF Repetitive(password) THEN 10 ELSE 0)
        - sequential_count(password) * 5

\* The level names, without the Polish diacritics.
Level(score) ==
    IF score >= 80 THEN "Bardzo silne"
    ELSE IF score >= 60 THEN "Silne"
    ELSE IF score >= 40 THEN "Srednie"
    ELSE IF score >= 20 THEN "Slabe"
    ELSE "Bardzo slabe"

\* The feedback list in the order of the appends.
Feedback(password) ==
    (IF Len(password) < 6 THEN <<"Haslo powinno miec co najmniej 8 znakow">> ELSE <<>>)
    \o (IF HasAny(password, lowercase) THEN <<>> ELSE <<"Dodaj male litery">>)
    \o (IF HasAny(password, uppercase) THEN <<>> ELSE <<"Dodaj wielkie litery">>)
    \o (IF HasAny(password, digits) THEN <<>> ELSE <<"Dodaj cyfry">>)
    \o (IF HasAny(password, special) THEN <<>> ELSE <<"Dodaj znaki specjalne">>)
    \o (IF Repetitive(password) THEN <<"Unikaj powtarzajacych sie znakow">> ELSE <<>>)
    \o (IF sequential_count(password) > 0
        THEN <<"Unikaj kolejnych znakow (abc, 123)">> ELSE <<>>)

Clamp(score) ==
    LET low == IF score < 100 THEN score ELSE 100
    IN  IF low > 0 THEN low ELSE 0

\* check_password_strength that returns the score as summed.
check_password_strength_unclamped(password) ==
    IF password = <<>>
    THEN [score |-> 0, level |-> "Bardzo slabe",
          feedback |-> <<"Haslo nie moze byc puste">>]
    ELSE [score |-> RawScore(password), level |-> Level(RawScore(password)),
          feedback |-> Feedback(password)]

\* check_password_strength: the level is taken from the score as summed, the
\* returned score is max(0, min(100, score)).
check_password_strength(password) ==
    IF password = <<>>
    THEN [score |-> 0, level |-> "Bardzo slabe",
          feedback |-> <<"Haslo nie moze byc puste">>]
    ELSE [score |-> Clamp(RawScore(password)), level |-> Level(RawScore(password)),
          feedback |-> Feedback(password)]

\* Passwords to rate: ascending runs ("abc...", "123...") and repetitions of
\* up to MaxRun characters, and the prefixes of "aB3!xY7?mK4#", "Password1234",
\* "password" with an e-acute, "aaaaAAAA1111" and "abcABC123!!!".
MaxRun == 14

Words ==
    {<<97, 66, 51, 33, 120, 89, 55, 63, 109, 75, 52, 35>>,
     <<80, 97, 115, 115, 119, 111, 114, 100, 49, 50, 51, 52>>,
     <<112, 97, 115, 115, 119, 111, 114, 100, 233>>,
     <<97, 97, 97, 97, 65, 65, 65, 65, 49, 49, 49, 49>>,
     <<97, 98, 99, 65, 66, 67, 49, 50, 51, 33, 33, 33>>}

StrengthPasswords ==
    {[i \in 1..n |-> c + i - 1] : c \in {97, 49}, n \in 0..MaxRun}
    \cup {Repeat(c, n) : c \in {97, 33}, n \in 1..MaxRun}
    \cup UNION {{SubSeq(w, 1, n) : n \in 1..Len(w)} : w \in Words}

StrengthCall(password) ==
    /\ \/ probe.op = "none"
       \/ probe.op = "generate_password" /\ probe.result.ok
          /\ password = probe.result.val
    /\ probe' = [op |-> "check_password_strength", password |-> password,
                 result |-> check_password_strength(password)]
    /\ UNCHANGED <<memory, files, now, last, env, other>>

\* The caller rates the passwords above and the password just generated.
NextGenerator ==
    \/ \E length \in Lengths, uu, ul, ud, us, ex \in BOOLEAN :
          GenerateCall(length, uu, ul, ud, us, ex)
    \/ \E password \in StrengthPasswords : probe.op = "none" /\ StrengthCall(password)
    \/ probe.op = "generate_password" /\ probe.result.ok
       /\ StrengthCall(probe.result.val)

SpecGenerator == Init /\ [][NextGenerator]_vars

(***************************************************************************)
(* Claims.                                                                 *)
(***************************************************************************)
\* The password that encrypted the vault file.
FilePassword == data_file.text.bytes.ct.key[1]

\* The entries a written file holds, as dictionaries.
BlobEntries(file) ==
    LET text == utf8_decode(Unpad(file.text.bytes.ct.pt).val).val
    IN  json_loads(text).val["entries"]

\* The entries the vault file holds.
FileEntries == BlobEntries(data_file)

Mutators == {"add_entry", "update_entry", "delete_entry", "import_data"}

SameIdentity(e, service, username) ==
    lower(e.service) = lower(service) /\ lower(e.username) = lower(username)

\* C1: in every reachable state no two entries of the in-memory vault have
\* the same (service, username) pair compared case-insensitively.
C1_UniqueIdentity ==
    \A i, j \in DOMAIN entries :
        i # j => ~SameIdentity(entries[i], entries[j].service, entries[j].username)

\* C2: on a vault file written under master password P, unlock_vault(P)
\* returns True and unlock_vault(Q) returns False for every Q other than P.
C2_WrongPasswordFails ==
    (last.op = "unlock_vault" /\ data_file.exists) =>
        (last.ret <=> utf8_encode(last.args.master) = FilePassword)

\* C3: while Unlocked, add_entry returns False and leaves the entries and the
\* vault file unchanged when an entry with the same service and username,
\* ignoring case, exists; otherwise it appends exactly one entry, the new one.
C3_AddDuplicateRejected ==
    [][(last'.op = "add_entry" /\ is_unlocked) =>
        LET a == last'.args
            n == Len(entries)
        IN  IF \E i \in DOMAIN entries : SameIdentity(entries[i], a.service, a.username)
            THEN ~last'.ret /\ entries' = entries /\ data_file' = data_file
            ELSE /\ Len(entries') = n + 1
                 /\ SubSeq(entries', 1, n) = entries
                 /\ entries'[n + 1].service = a.service
                 /\ entries'[n + 1].username = a.username
                 /\ entries'[n + 1].password = a.password
                 /\ entries'[n + 1].notes = a.notes]_vars

\* An add_entry was refused for an entry that differs from the call in case only.
C3_Witness ==
    /\ last.op = "add_entry" /\ ~last.ret /\ is_unlocked
    /\ \E i \in DOMAIN entries :
          /\ SameIdentity(entries[i], last.args.service, last.args.username)
          /\ entries[i].service # last.args.service

\* C4: unlock_vault on a Locked manager returns True only when the vault file
\* was read, decrypted and parsed into the entries it installs; when it
\* returns False (the file is missing, or one of those steps can fail on it)
\* the manager stays Locked: is_unlocked False, master_password None, no
\* entries, the files as they were.
C4_FailedUnlockStaysLocked ==
    [][(last'.op = "unlock_vault" /\ ~is_unlocked) =>
        LET loaded == _load_data(data_file, last'.args.master, now)
        IN  /\ (~data_file.exists => ~last'.ret)
            /\ (data_file.exists /\ loaded = {Err} => ~last'.ret)
            /\ (last'.ret => Ok(entries') \in loaded)
            /\ (~last'.ret => /\ data_file.exists => Err \in loaded
                              /\ ~is_unlocked'
                              /\ master_password' = None
                              /\ entries' = <<>>
                              /\ files' = files)]_vars

\* unlock_vault failed on an existing vault file that holds an entry.
C4_Witness ==
    /\ last.op = "unlock_vault" /\ ~last.ret /\ ~last.was_unlocked /\ ~is_unlocked
    /\ data_file.exists /\ Len(FileEntries) > 0

\* C5: lock_vault leaves is_unlocked False, master_password None and no
\* entries, and does not change the files; while not Unlocked get_entries
\* returns an empty list, and only a successful unlock_vault or create_vault
\* makes the manager Unlocked.
C5_LockClears ==
    [][/\ (last'.op = "lock_vault" =>
              /\ ~is_unlocked' /\ master_password' = None /\ entries' = <<>>
              /\ files' = files)
       /\ ((last'.op = "get_entries" /\ ~is_unlocked) => last'.out = <<>>)
       /\ ((~is_unlocked /\ is_unlocked') =>
              last'.op \in {"unlock_vault", "create_vault"} /\ last'.ret)]_vars

\* get_entries was called on a locked vault whose file holds an entry.
C5_Witness ==
    /\ last.op = "get_entries" /\ ~is_unlocked /\ last.out = <<>>
    /\ data_file.exists /\ Len(FileEntries) > 0

\* C6: while the manager is not Unlocked, add_entry, update_entry,
\* delete_entry, export_data and import_data return False and change neither
\* the in-memory state nor a file, and search_entries and get_entries return
\* no entries.
C6_LockedCallsFail ==
    [][~is_unlocked =>
        /\ (last'.op \in Mutators \cup {"export_data"} =>
               ~last'.ret /\ memory' = memory /\ files' = files)
        /\ (last'.op = "search_entries" =>
               last'.hits = <<>> /\ memory' = memory /\ files' = files)
        /\ (last'.op = "get_entries" =>
               last'.out = <<>> /\ memory' = memory /\ files' = files)]_vars

\* export_data was refused on a locked vault whose file holds an entry.
C6_Witness ==
    /\ last.op = "export_data" /\ ~last.ret /\ ~is_unlocked
    /\ data_file.exists /\ Len(FileEntries) > 0

\* C7: create_vault(P) returns False and changes nothing when the vault file
\* exists; otherwise it leaves the manager Unlocked with no entries and a
\* vault file that decrypts under P to an empty entry list.
C7_CreateVault ==
    [][last'.op = "create_vault" =>
        IF data_file.exists
        THEN ~last'.ret /\ memory' = memory /\ files' = files
        ELSE /\ is_unlocked' /\ entries' = <<>>
             /\ master_password' = last'.args.master
             /\ data_file'.exists
             /\ _load_data(data_file', last'.args.master, now) = {Ok(<<>>)}]_vars

\* create_vault was refused while the manager held an entry of the existing vault.
C7_Witness ==
    /\ last.op = "create_vault" /\ ~last.ret
    /\ data_file.exists /\ is_unlocked /\ Len(entries) > 0

\* C8: after add_entry, update_entry, delete_entry or import_data returned
\* True, decrypting the vault file with the current master password yields
\* exactly the in-memory entries, in order.
C8_FileHoldsEntries ==
    (last.op \in Mutators /\ last.ret) =>
        /\ data_file.exists
        /\ _load_data(data_file, master_password, now) = {Ok(entries)}

\* delete_entry shrank a vault of two entries and the file was rewritten.
C8_Witness ==
    /\ last.op = "delete_entry" /\ last.ret /\ Len(entries) = 1
    /\ _load_data(data_file, master_password, now) = {Ok(entries)}

\* C9: lock_vault followed by unlock_vault with the master password that was
\* in use restores the same entries, in order, with the same field values.
C9_LockUnlockRestores ==
    [][(/\ last.op = "lock_vault" /\ last.args.master # None
        /\ last'.op = "unlock_vault" /\ last'.ret
        /\ last'.args.master = last.args.master) =>
            entries' = last.out]_vars

\* Two entries, one of them updated after it was created, were restored by
\* an unlock_vault at a later time than their creation.
C9_Witness ==
    /\ last.op = "unlock_vault" /\ last.ret /\ ~last.was_unlocked
    /\ is_unlocked /\ Len(entries) = 2
    /\ \E i \in DOMAIN entries :
          /\ entries[i].created_at # entries[i].updated_at
          /\ entries[i].updated_at # TimeStr(last.at)

\* C10: decrypt_data(encrypt_data(d, p), p) returns d, for every salt and IV.
C10_RoundTrip ==
    (probe.op = "decrypt" /\ probe.damage = "none" /\ probe.password2 = probe.password) =>
        probe.result = Ok(probe.data)

\* A text whose UTF-8 form is a whole number of blocks was encrypted and
\* decrypted with the same password.
C10_Witness ==
    /\ probe.op = "decrypt" /\ probe.damage = "none" /\ probe.password2 = probe.password
    /\ probe.data # <<>>
    /\ Len(utf8_encode(probe.data)) % BlockSize = 0
    /\ probe.result = Ok(probe.data)

\* The salt and the IV stored in a written file.
SaltOf(file) == SubSeq(file.text.bytes.plain, 1, salt_length)

IvOf(file) == SubSeq(file.text.bytes.plain, salt_length + 1, salt_length + iv_length)

Persisters == Mutators \cup {"create_vault"}

\* C11: every persist and every export writes a blob whose salt and IV are
\* the values os.urandom has just returned, not those of the file it
\* replaces nor of the other file; so with a source that returns no value
\* twice, a persist writes a blob different from the one in the file, also
\* when the entries and the master password are the same.
C11_FreshSaltAndIv ==
    [][/\ (last'.op \in Persisters /\ last'.ret) =>
              /\ SaltOf(data_file') \in env.salts \ env'.salts
              /\ IvOf(data_file') \in env.ivs \ env'.ivs
              /\ data_file.exists =>
                     /\ data_file' # data_file
                     /\ SaltOf(data_file') # SaltOf(data_file)
                     /\ IvOf(data_file') # IvOf(data_file)
              /\ export_file.exists =>
                     /\ SaltOf(data_file') # SaltOf(export_file)
                     /\ IvOf(data_file') # IvOf(export_file)
       /\ (last'.op = "export_data" /\ last'.ret) =>
              /\ SaltOf(export_file') \in env.salts \ env'.salts
              /\ IvOf(export_file') \in env.ivs \ env'.ivs
              /\ export_file' # export_file
              /\ SaltOf(export_file') # SaltOf(data_file)
              /\ IvOf(export_file') # IvOf(data_file)]_vars

\* update_entry with no new values persisted, a second time, the entries the
\* file already held.
C11_Witness ==
    /\ env.fresh /\ Cardinality(env.salts) + 3 <= Cardinality(FreshSalts)
    /\ last.op = "update_entry" /\ last.ret /\ is_unlocked
    /\ Len(entries) = 1 /\ FileEntries = [i \in DOMAIN entries |-> to_dict(entries[i])]

\* C12: a persist that fails leaves the existing vault file as it was:
\* add_entry, update_entry, delete_entry and import_data change the file only
\* when they return True, so the file always holds a completely written blob.
C12_FailedPersistKeepsFile ==
    [][(IsCompleteBlob(data_file) /\ last'.op \in Mutators /\ ~last'.ret) =>
            data_file' = data_file]_vars

\* C13: while Unlocked, update_entry(i, ...) and delete_entry(i) with i < 0 or
\* i >= len(entries) return False and leave the in-memory state and the
\* files unchanged.
C13_OutOfRangeIndex ==
    [][(/\ is_unlocked
        /\ last'.op \in {"update_entry", "delete_entry"}
        /\ (last'.args.index < 0 \/ last'.args.index >= Len(entries))) =>
            ~last'.ret /\ memory' = memory /\ files' = files]_vars

\* delete_entry(-1), which Python's del would take as the last position, was
\* refused on a vault that holds entries.
C13_Witness ==
    /\ is_unlocked /\ last.was_unlocked /\ ~last.ret /\ Len(entries) > 0
    /\ last.op = "delete_entry" /\ last.args.index = -1

\* q occurs in s at some offset, letter case ignored.
Within(q, s) ==
    \E k \in 0..(Len(s) - Len(q)) :
        \A j \in 1..Len(q) : lower(s)[k + j] = lower(q)[j]

\* C14: while Unlocked, search_entries(q) returns in ascending order exactly
\* the positions of the entries whose service, username or notes contains q
\* ignoring letter case (the password is not searched), and changes neither
\* the in-memory state nor the files.
C14_SearchResult ==
    [][(last'.op = "search_entries" /\ is_unlocked) =>
        LET h == last'.hits
            q == last'.args.query
        IN  /\ \A k \in 1..(Len(h) - 1) : h[k] < h[k + 1]
            /\ {h[k] : k \in DOMAIN h} =
                   {i \in 0..(Len(entries) - 1) :
                       \/ Within(q, entries[i + 1].service)
                       \/ Within(q, entries[i + 1].username)
                       \/ Within(q, entries[i + 1].notes)}
            /\ memory' = memory /\ files' = files]_vars

\* A query in other letter case found one of two entries inside its service
\* name, and not the other entry, whose password contains it.
C14_Witness ==
    /\ last.op = "search_entries" /\ is_unlocked /\ last.was_unlocked
    /\ Len(entries) = 2 /\ Len(last.hits) = 1
    /\ LET hit == entries[last.hits[1] + 1]
           q == last.args.query
       IN  /\ Within(q, hit.service) /\ ~Contains(q, hit.service)
           /\ \E i \in DOMAIN entries : Within(q, entries[i].password)

\* The file's text is no base64, or its bytes are fewer than salt, IV and one
\* block, or its ciphertext is not a whole number of blocks.
Malformed(file) ==
    \/ ~file.text.valid
    \/ Len(file.text.bytes.plain) < salt_length + iv_length
    \/ file.text.bytes.ct.n = 0
    \/ file.text.bytes.ct.n % BlockSize # 0

Kept(es, F) ==
    {k \in DOMAIN F :
        /\ \A i \in DOMAIN es : ~SameIdentity(es[i], F[k].service, F[k].username)
        /\ \A j \in 1..(k - 1) : ~SameIdentity(F[j], F[k].service, F[k].username)}

\* C16: while Unlocked, a successful import_data leaves the previous entries
\* unchanged and in their order, followed in file order by each entry of the
\* file whose pair is, letter case ignored, neither in the vault nor earlier
\* in the file, with the field values of the file; the vault file then holds
\* the merged entries.
C16_ImportMerges ==
    [][(last'.op = "import_data" /\ last'.ret) =>
        LET F == BlobEntries(export_file)
            n == Len(entries)
            keep == Kept(entries, F)
            tail == SubSeq(entries', n + 1, Len(entries'))
        IN  /\ is_unlocked /\ is_unlocked' /\ master_password' = master_password
            /\ SubSeq(entries', 1, n) = entries
            /\ Len(tail) = Cardinality(keep)
            /\ \A m \in DOMAIN tail :
                  to_dict(tail[m]) =
                      F[CHOOSE k \in keep : Cardinality({j \in keep : j < k}) = m - 1]
            /\ _load_data(data_file', master_password, now) = {Ok(entries')}
            /\ export_file' = export_file]_vars

\* An import appended to a vault of one entry one entry of a file of three:
\* of the other two, one repeats the vault's entry and one repeats, in other
\* letter case, the entry appended.
C16_Witness ==
    /\ last.op = "import_data" /\ last.ret /\ is_unlocked
    /\ Len(entries) = 2 /\ Len(BlobEntries(export_file)) = 3
    /\ LET F == BlobEntries(export_file)
       IN  /\ to_dict(entries[2]) = F[1]
           /\ SameIdentity(F[2], F[1].service, F[1].username) /\ F[2] # F[1]
           /\ to_dict(entries[1]) = F[3]

\* The password that encrypted a written file.
BlobPassword(file) == file.text.bytes.ct.key[1]

\* C17: import_data of a file encrypted under a master password other than
\* the one of the unlocked vault returns False and leaves the in-memory
\* state and the files unchanged.
C17_ForeignImportFails ==
    [][(/\ last'.op = "import_data" /\ is_unlocked
        /\ IsCompleteBlob(export_file)
        /\ BlobPassword(export_file) # utf8_encode(master_password)) =>
            ~last'.ret /\ memory' = memory /\ files' = files]_vars

\* An import of three entries written under another password was refused by
\* a vault that holds none of them.
C17_Witness ==
    /\ last.op = "import_data" /\ ~last.ret /\ is_unlocked /\ last.was_unlocked
    /\ IsCompleteBlob(export_file)
    /\ BlobPassword(export_file) # utf8_encode(master_password)
    /\ Len(BlobEntries(export_file)) = 3 /\ entries = <<>>

\* The character classes of the generator.
IsLower(c) == c \in 97..122

IsUpper(c) == c \in 65..90

IsDigit(c) == c \in 48..57

IsSpecial(c) ==
    c \in {33, 35, 36, 37, 38, 40, 41, 42, 43, 44, 45, 46, 58, 59, 60, 61, 62, 63,
           64, 91, 93, 94, 95, 123, 124, 125}

\* C18: for every length >= 4 and every flag combination with at least one
\* class enabled, whatever the random choices and the shuffle, generate_password
\* returns a string of exactly the requested length that holds at least one
\* character of each enabled class.
C18_LengthAndClasses ==
    (/\ probe.op = "generate_password" /\ probe.length >= 4
     /\ (probe.use_uppercase \/ probe.use_lowercase \/ probe.use_digits
         \/ probe.use_special)) =>
        /\ probe.result.ok
        /\ Len(probe.result.val) = probe.length
        /\ probe.use_lowercase => \E i \in DOMAIN probe.result.val : IsLower(probe.result.val[i])
        /\ probe.use_uppercase => \E i \in DOMAIN probe.result.val : IsUpper(probe.result.val[i])
        /\ probe.use_digits => \E i \in DOMAIN probe.result.val : IsDigit(probe.result.val[i])
        /\ probe.use_special => \E i \in DOMAIN probe.result.val : IsSpecial(probe.result.val[i])

\* A password of five characters with all four classes enabled whose required
\* digit is the single digit and stands at the end after the shuffle.
C18_Witness ==
    /\ probe.op = "generate_password" /\ probe.length = 5
    /\ probe.use_uppercase /\ probe.use_lowercase /\ probe.use_digits
    /\ probe.use_special /\ probe.exclude_similar
    /\ probe.result.ok
    /\ IsDigit(probe.result.val[5])
    /\ \A i \in 1..4 : ~IsDigit(probe.result.val[i])

\* C19: check_password_strength returns a score within 0..100 and the level
\* that the thresholds assign to the returned score (80 very strong, 60
\* strong, 40 medium, 20 weak, below that very weak), also when the penalties
\* drive the sum below zero.
C19_ScoreAndLevel ==
    probe.op = "check_password_strength" =>
        /\ probe.result.score \in 0..100
        /\ probe.result.level =
              CASE probe.result.score >= 80 -> "Bardzo silne"
                []  probe.result.score \in 60..79 -> "Silne"
                []  probe.result.score \in 40..59 -> "Srednie"
                []  probe.result.score \in 20..39 -> "Slabe"
                []  probe.result.score \in 0..19 -> "Bardzo slabe"

\* A run of twelve or more ascending letters was rated: 25 + 15 for length and
\* class, less 5 for each of at least ten runs, is below zero.
C19_Witness ==
    /\ probe.op = "check_password_strength"
    /\ Len(probe.password) >= 12
    /\ \A i \in 1..(Len(probe.password) - 1) :
          probe.password[i + 1] = probe.password[i] + 1
    /\ \A i \in DOMAIN probe.password : IsLower(probe.password[i])
    /\ probe.result.score = 0 /\ probe.result.level = "Bardzo slabe"

\* The data ends in PKCS7 padding: its last byte n is in 1..BlockSize and its
\* last n bytes all equal n.
ValidPkcs7(padded) ==
    /\ padded # <<>>
    /\ LET n == padded[Len(padded)]
       IN  /\ n \in 1..BlockSize /\ n <= Len(padded)
           /\ \A i \in (Len(padded) - n + 1)..Len(padded) : padded[i] = n

\* C20: decrypt_data fails with ValueError whenever the decrypted data does
\* not end in valid PKCS7 padding; it never returns a text obtained by
\* stripping inconsistent padding.
C20_BadPaddingFails ==
    (/\ probe.op = "decrypt" /\ probe.damage = "padding"
     /\ probe.password2 = probe.password
     /\ ~ValidPkcs7(probe.blob.bytes.ct.pt)) =>
        ~probe.result.ok

\* The number of bytes the file's text decodes to.
DecodedLength(file) == Len(file.text.bytes.plain) + file.text.bytes.ct.n

\* C21: a blob that decodes to fewer bytes than salt, IV and one cipher block
\* is rejected under every password: decrypt_data raises, unlock_vault and
\* import_data return False.
C21_ShortBlobRejected ==
    [][(/\ data_file.exists /\ data_file.text.valid
        /\ DecodedLength(data_file) < salt_length + iv_length + BlockSize) =>
            /\ last'.op = "decrypt_data" => last'.out = Err
            /\ last'.op \in {"unlock_vault", "import_data"} => ~last'.ret]_vars

\* decrypt_data raised, under the password that wrote the file, on a file cut
\* to salt and IV: the cipher accepts the empty ciphertext and padded_data[-1]
\* fails.
C21_Witness ==
    /\ last.op = "decrypt_data" /\ last.out = Err
    /\ data_file.exists /\ data_file.text.valid
    /\ DecodedLength(data_file) = salt_length + iv_length
    /\ Len(data_file.text.bytes.plain) = salt_length + iv_length
    /\ utf8_encode(last.args.master) = FilePassword

\* The time an isoformat() string denotes.
TimeOf(s) == s[1] - 48

\* The timestamps of a list of entries, by position.
Stamps(es) == [k \in DOMAIN es |-> <<es[k].created_at, es[k].updated_at>>]

\* C22: created_at of an entry never changes after the entry is created,
\* across update_entry, persists, locks and unlocks; a successful update_entry
\* sets updated_at to the time of the call, so updated_at never decreases.
\* (now' = now: the step is a call, not the passing of time; last.out of a
\* lock_vault is the list it discarded.)
C22_Timestamps ==
    [][/\ (last'.op = "update_entry" /\ last'.ret /\ now' = now) =>
              LET i == last'.args.index + 1
              IN  /\ entries'[i].created_at = entries[i].created_at
                  /\ entries'[i].updated_at = TimeStr(now)
       /\ (is_unlocked /\ is_unlocked' /\ Len(entries') >= Len(entries)) =>
              \A k \in DOMAIN entries :
                  /\ entries'[k].created_at = entries[k].created_at
                  /\ TimeOf(entries'[k].updated_at) >= TimeOf(entries[k].updated_at)
       /\ (/\ last.op = "lock_vault" /\ last.was_unlocked
           /\ last'.op = "unlock_vault" /\ last'.ret) =>
              Stamps(entries') = Stamps(last.out)]_vars

\* An entry created at time 1 and updated at time 2 was updated again at
\* time 3.
C22_Witness ==
    /\ last.op = "update_entry" /\ last.ret /\ last.at = 3
    /\ \E i \in DOMAIN entries :
          /\ i = last.args.index + 1
          /\ TimeOf(entries[i].created_at) = 1
          /\ entries[i].updated_at = TimeStr(3)
          /\ BlobEntries(data_file)[i].updated_at = TimeStr(3)

\* C23: the master password and the entries are in memory only while the
\* vault is Unlocked: when is_unlocked is False, master_password is None and
\* the entries are empty; when is_unlocked is True a master password is set.
C23_SecretsOnlyWhileUnlocked ==
    /\ ~is_unlocked => master_password = None /\ entries = <<>>
    /\ is_unlocked => master_password \in Passwords

\* lock_vault emptied a memory that held a master password and entries.
C23_Witness ==
    /\ last.op = "lock_vault" /\ last.was_unlocked
    /\ last.args.master \in Passwords /\ Len(last.out) > 0
    /\ ~is_unlocked /\ master_password = None /\ entries = <<>>

\* The (service, username) pair of e, letter case ignored, occurs in es.
Holds(es, e) ==
    \E i \in DOMAIN es : SameIdentity(es[i], e.service, e.username)

\* C24: when two manager instances are Unlocked on the same vault file, a
\* successful add_entry overwrites the file with the collection of the
\* instance that adds and nothing else: what the other instance added and
\* this one never loaded is no longer in the file (last writer wins).
C24_LastWriterWins ==
    [][(/\ last'.op = "add_entry" /\ last'.ret /\ other' = other
        /\ is_unlocked /\ other.is_unlocked) =>
            /\ BlobEntries(data_file') = [i \in DOMAIN entries' |-> to_dict(entries'[i])]
            /\ \A k \in DOMAIN other.entries :
                  (/\ ~Holds(entries, other.entries[k])
                   /\ ~SameIdentity(other.entries[k], last'.args.service,
                                    last'.args.username)) =>
                      ~Holds(BlobEntries(data_file'), other.entries[k])]_vars

\* Both instances were Unlocked on the empty vault, each added a different
\* entry and got True, and the file lacks the entry of the one that added
\* first.
C24_Witness ==
    /\ is_unlocked /\ other.is_unlocked
    /\ last.op = "add_entry" /\ last.ret /\ last.was_unlocked
    /\ other.last.op = "add_entry" /\ other.last.ret
    /\ Len(entries) = 1 /\ Len(other.entries) = 1
    /\ ~Holds(entries, other.entries[1])
    /\ Len(FileEntries) = 1 /\ Holds(FileEntries, entries[1])
    /\ ~Holds(FileEntries, other.entries[1])

\* C25: a successful delete_entry(i) removes exactly the entry at position i:
\* the list is shorter by one, the entries before i keep their positions, the
\* entries after i move down by one, and no field of a remaining entry changes.
C25_DeleteShifts ==
    [][(last'.op = "delete_entry" /\ last'.ret) =>
          LET i == last'.args.index + 1
          IN  /\ Len(entries') = Len(entries) - 1
              /\ \A k \in 1..(i - 1) : entries'[k] = entries[k]
              /\ \A k \in i..Len(entries') : entries'[k] = entries[k + 1]]_vars

\* delete_entry(1) removed the middle one of three entries: "a" stays first
\* and "c" moved from the third to the second position.
C25_Witness ==
    /\ last.op = "delete_entry" /\ last.ret /\ last.args.index = 1
    /\ Len(entries) = 2
    /\ entries[1].username = <<97>> /\ entries[2].username = <<99>>

\* C26: whenever add_entry, update_entry, delete_entry or import_data returns
\* False while Unlocked, also when writing the vault file fails, the in-memory
\* entries are what they were before the call.
C26_FailureKeepsEntries ==
    [][(is_unlocked /\ last'.op \in Mutators /\ ~last'.ret) =>
            entries' = entries]_vars

\* C27: whenever create_vault returns False, also when writing the new vault
\* file fails, the manager is left not Unlocked and without a master
\* password; in every reachable state is_unlocked implies that the vault
\* file exists.
C27_FailedCreateStaysLocked ==
    /\ (last.op = "create_vault" /\ ~last.ret /\ ~last.was_unlocked) =>
           ~is_unlocked /\ master_password = None
    /\ is_unlocked => data_file.exists

\* C28: an unlock_vault that fails on a manager that is already Unlocked
\* (wrong password, unreadable file) leaves it Unlocked with the master
\* password and the entries it had.
C28_FailedUnlockKeepsSession ==
    [][(last'.op = "unlock_vault" /\ is_unlocked /\ ~last'.ret) =>
            /\ is_unlocked'
            /\ master_password' = master_password
            /\ entries' = entries]_vars

\* unlock_vault with another password failed on an Unlocked manager that
\* holds entries.
C28_Witness ==
    /\ last.op = "unlock_vault" /\ ~last.ret /\ last.was_unlocked
    /\ is_unlocked /\ Len(entries) > 0
    /\ IsCompleteBlob(data_file)
    /\ last.args.master # master_password

\* C29: once the vault file exists no manager operation removes it:
\* vault_exists stays True and create_vault does not succeed again.
C29_VaultFileStays ==
    [][vault_exists =>
          /\ vault_exists'
          /\ (last'.op = "create_vault" /\ last' # last) => ~last'.ret]_vars

\* create_vault was refused on a manager that holds entries, after a failed
\* write had damaged the vault file.
C29_Witness ==
    /\ last.op = "create_vault" /\ ~last.ret /\ last.was_unlocked
    /\ vault_exists /\ ~IsCompleteBlob(data_file)
    /\ Len(entries) > 0

\* C30: while Unlocked, export_data returns True and changes neither the
\* in-memory state nor the vault file; import_data of the file just exported,
\* with no call in between, returns True and leaves the entries exactly as
\* they were.
C30_ExportThenImport ==
    [][/\ (last'.op = "export_data" /\ is_unlocked) =>
              last'.ret /\ memory' = memory /\ data_file' = data_file
       /\ (/\ last.op = "export_data" /\ last.ret
           /\ last'.op = "import_data") =>
              last'.ret /\ entries' = entries]_vars

\* import_data returned True on the export of the two entries in memory and
\* added none.
C30_Witness ==
    /\ last.op = "import_data" /\ last.ret /\ is_unlocked
    /\ Len(entries) = 2
    /\ IsCompleteBlob(export_file)
    /\ BlobEntries(export_file) = [i \in DOMAIN entries |-> to_dict(entries[i])]

====
